---------------------------- MODULE Spec2Model ----------------------------
(***************************************************************************)
(* A model of src/main.py (book_converter): the EPUB rewriting pipeline    *)
(* process_epub and the pure rewriters it routes entries to.               *)
(*                                                                         *)
(* Text is a sequence of lexemes (strings).  The words the regular         *)
(* expressions of the source look for ("font-family", "style=") are one    *)
(* lexeme each; every other lexeme stands for one character.  Entry names  *)
(* and tag names are sequences of single characters, so that suffix tests, *)
(* lower-casing and rsplit are computed and not assumed.                   *)
(*                                                                         *)
(* Four specifications share the variables:                                *)
(*   Spec     process_epub, one action per pipeline stage                  *)
(*   SpecCss  modify_css applied to every bounded stylesheet text          *)
(*   SpecTag  strip_body_inline_fonts' _process_tag on bounded start-tags  *)
(*   SpecOpf  modify_opf applied once and again to bounded descriptors     *)
(***************************************************************************)
EXTENDS Integers, Sequences, FiniteSets, TLC

VARIABLES
    pc,         \* position of the run (each specification has its own values)
    error,      \* the exception that ended process_epub, "" while none
    zin,        \* the input archive: its entries in infolist() order
    entries,    \* process_epub's dict `entries`, in insertion order
    opf_path,   \* process_epub's opf_path (<<>> is None, <<p>> is the path p)
    outfile,    \* what the output path holds on disk
    warnings,   \* number of "Warning: No OPF file found" lines printed
    routed,     \* log of <<entry name, rewriter>>: every call of a rewriter
    css_in,     \* SpecCss: the stylesheet text given to modify_css
    css_out,    \* SpecCss: what modify_css returned
    tag_in,     \* SpecTag: the start-tag matched, [name, attrs (structured)]
    tag_out,    \* SpecTag: the text _process_tag returned for it
    opf_in,     \* SpecOpf: the descriptor given to modify_opf
    opf_out,    \* SpecOpf: modify_opf(opf_in)
    opf_out2    \* SpecOpf: modify_opf(modify_opf(opf_in))

pipeVars == <<error, zin, entries, opf_path, outfile, warnings, routed>>
cssVars  == <<css_in, css_out>>
tagVars  == <<tag_in, tag_out>>
opfVars  == <<opf_in, opf_out, opf_out2>>
vars     == <<pc, pipeVars, cssVars, tagVars, opfVars>>

(***************************************************************************)
(* Bounds of the model.                                                    *)
(***************************************************************************)
MaxCss      == 5   \* lexemes of a stylesheet text (SpecCss)
MaxVal      == 3   \* lexemes of a style attribute's value (SpecTag)
MaxKids     == 2   \* children of a metadata element (SpecOpf)
MaxChildren == 2   \* children of the descriptor's root (SpecOpf)
MaxEntries  == 3   \* entries of the input archive (Spec)

(***************************************************************************)
(* Sequences.                                                              *)
(***************************************************************************)
SeqsUpTo(S, n) == UNION {[1..k -> S] : k \in 0..n}

Range(s) == {s[i] : i \in 1..Len(s)}

StartsWith(s, p) == Len(p) <= Len(s) /\ SubSeq(s, 1, Len(p)) = p

\* str.endswith
EndsWith(s, p) ==
    Len(p) <= Len(s) /\ SubSeq(s, Len(s) - Len(p) + 1, Len(s)) = p

Drop(s, n) == SubSeq(s, n + 1, Len(s))

Min(S) == CHOOSE x \in S : \A y \in S : x <= y

\* index of the first element of s at or after position i that is in C,
\* 0 if there is none
FirstFrom(s, i, C) ==
    LET hits == {j \in i..Len(s) : s[j] \in C}
    IN  IF hits = {} THEN 0 ELSE Min(hits)

\* number of consecutive elements of s from position i on that are in C
RunFrom(s, i, C) ==
    LET stops == {j \in i..Len(s) : s[j] \notin C}
    IN  IF i > Len(s) THEN 0
        ELSE IF stops = {} THEN Len(s) + 1 - i
        ELSE Min(stops) - i

(***************************************************************************)
(* Character classes of the regular expressions.                           *)
(***************************************************************************)
FF == "font-family"

\* \s
Space == {" ", "\t", "\n"}

\* [ \t]
Blank == {" ", "\t"}

(***************************************************************************)
(* Stylesheet Rewriter: strip_css_font_family, modify_css.                 *)
(***************************************************************************)
\* The fixed blocks, abridged to one declaration of each: every declaration
\* of the source's blocks has this shape and ends in a semicolon.
FONT_FACE_CSS ==
    <<"@font-face", " ", "{", " ", FF, ":", " ", "\"name\"", ";", " ",
      "src", ":", " ", "local", ";", " ", "}", "\n">>

EXTRA_CSS ==
    <<"body", " ", "{", "\n", " ", " ", "writing-mode", ":", " ",
      "vertical-rl", ";", "\n", "}", "\n",
      "body, p", " ", "{", "\n", " ", " ", FF, ":", " ", "\"name\"", ";",
      "\n", "}", "\n">>

\* Length of the match of  [ \t]*font-family\s*:[^;]*;\n?  that starts at
\* the first lexeme of s; 0 when the pattern does not match there.
CssDeclMatch(s) ==
    LET b    == RunFrom(s, 1, Blank)              \* [ \t]*
        f    == b + 1                               \* font-family
        w    == RunFrom(s, f + 1, Space)          \* \s*
        c    == f + w + 1                           \* :
        semi == FirstFrom(s, c + 1, {";"})         \* [^;]*;
    IN  IF f <= Len(s) /\ s[f] = FF /\ c <= Len(s) /\ s[c] = ":" /\ semi > 0
        THEN IF semi < Len(s) /\ s[semi + 1] = "\n" THEN semi + 1 ELSE semi
        ELSE 0

\* re.sub(r"[ \t]*font-family\s*:[^;]*;\n?", "", css): leftmost matches,
\* left to right, not overlapping
RECURSIVE strip_css_font_family(_)
strip_css_font_family(css) ==
    IF css = <<>> THEN <<>>
    ELSE LET m == CssDeclMatch(css)
         IN  IF m > 0 THEN strip_css_font_family(Drop(css, m))
             ELSE <<Head(css)>> \o strip_css_font_family(Tail(css))

modify_css(content) ==
    FONT_FACE_CSS \o <<"\n">> \o strip_css_font_family(content)
                  \o <<"\n">> \o EXTRA_CSS

(***************************************************************************)
(* Attribute-Scoped Style Stripper: _strip_font_family_from_style.         *)
(***************************************************************************)
\* Length of the match of  \s*font-family\s*:[^;]*;?  that starts at the
\* first lexeme of s; 0 when the pattern does not match there.
StyleDeclMatch(s) ==
    LET b    == RunFrom(s, 1, Space)                \* \s*
        f    == b + 1                               \* font-family
        w    == RunFrom(s, f + 1, Space)            \* \s*
        c    == f + w + 1                           \* :
        semi == FirstFrom(s, c + 1, {";"})          \* [^;]*;?
    IN  IF f <= Len(s) /\ s[f] = FF /\ c <= Len(s) /\ s[c] = ":"
        THEN IF semi > 0 THEN semi ELSE Len(s)
        ELSE 0

\* re.sub(r"\s*font-family\s*:[^;]*;?", "", style_value)
RECURSIVE StyleDeclSub(_)
StyleDeclSub(s) ==
    IF s = <<>> THEN <<>>
    ELSE LET m == StyleDeclMatch(s)
         IN  IF m > 0 THEN StyleDeclSub(Drop(s, m))
             ELSE <<Head(s)>> \o StyleDeclSub(Tail(s))

\* str.strip()
str_strip(s) ==
    LET keep == {j \in 1..Len(s) : s[j] \notin Space}
    IN  IF keep = {} THEN <<>>
        ELSE SubSeq(s, Min(keep), CHOOSE j \in keep : \A k \in keep : k <= j)

strip_font_family_from_style(style_value) ==
    str_strip(StyleDeclSub(style_value))

(***************************************************************************)
(* Markup Tag Rewriter: strip_body_inline_fonts and its _process_tag.      *)
(***************************************************************************)
STYLE == "style="

Quotes == {"\"", "'"}

\* str.lower() on the characters the names of the model are made of
LowerChar(c) ==
    CASE c = "A" -> "a" [] c = "C" -> "c" [] c = "E" -> "e"
      [] c = "F" -> "f" [] c = "H" -> "h" [] c = "I" -> "i"
      [] c = "L" -> "l" [] c = "M" -> "m" [] c = "N" -> "n"
      [] c = "O" -> "o" [] c = "P" -> "p" [] c = "S" -> "s"
      [] c = "T" -> "t" [] c = "X" -> "x" [] OTHER -> c

str_lower(s) == [i \in 1..Len(s) |-> LowerChar(s[i])]

\* tag_name.rsplit(":", 1)[-1]
rsplit_last(tag_name) ==
    LET colons == {j \in 1..Len(tag_name) : tag_name[j] = ":"}
    IN  IF colons = {} THEN tag_name
        ELSE Drop(tag_name, CHOOSE j \in colons : \A k \in colons : k <= j)

\* HEADING_RE compiled without re.IGNORECASE
HEADING_RE_match_cased(local_name) ==
    /\ Len(local_name) = 2
    /\ local_name[1] = "h"
    /\ local_name[2] \in {"1", "2", "3", "4", "5", "6"}

\* HEADING_RE.match(local_name):  ^h[1-6]$  with re.IGNORECASE
HEADING_RE_match(local_name) ==
    /\ Len(local_name) = 2
    /\ local_name[1] \in {"h", "H"}
    /\ local_name[2] \in {"1", "2", "3", "4", "5", "6"}

\* _fix_style(m) for a match of  style=(["'])(.*?)\1
fix_style(quote, value) ==
    LET new_value == strip_font_family_from_style(value)
    IN  IF new_value = <<>> THEN <<>>
        ELSE <<STYLE, quote>> \o new_value \o <<quote>>

\* Length of the match of  style=(["'])(.*?)\1  that starts at the first
\* lexeme of s; 0 when the pattern does not match there ("." is no newline).
StyleAttrMatch(s) ==
    IF Len(s) >= 3 /\ s[1] = STYLE /\ s[2] \in Quotes
    THEN LET close == FirstFrom(s, 3, {s[2]})
         IN  IF close > 0 /\ \A j \in 3..(close - 1) : s[j] # "\n"
             THEN close ELSE 0
    ELSE 0

\* re.sub(r'style=(["\'])(.*?)\1', _fix_style, attrs)
RECURSIVE StyleAttrSub(_)
StyleAttrSub(s) ==
    IF s = <<>> THEN <<>>
    ELSE LET m == StyleAttrMatch(s)
         IN  IF m > 0
             THEN fix_style(s[2], SubSeq(s, 3, m - 1)) \o StyleAttrSub(Drop(s, m))
             ELSE <<Head(s)>> \o StyleAttrSub(Tail(s))

\* re.sub(r"  +", " ", new_attrs)
RECURSIVE CollapseSpaces(_)
CollapseSpaces(s) ==
    IF s = <<>> THEN <<>>
    ELSE LET run == RunFrom(s, 1, {" "})
         IN  IF run >= 2 THEN <<" ">> \o CollapseSpaces(Drop(s, run))
             ELSE <<Head(s)>> \o CollapseSpaces(Tail(s))

\* [a-zA-Z], \d and [\w:-] on the characters the model's tag names are
\* made of
Letters == {"a", "b", "g", "h", "p", "s", "v", "x", "H"}

Digits == {"1", "2", "3", "4", "5", "6", "7"}

NameChars == Letters \cup Digits \cup {"_", ":", "-"}

\* _process_tag(match): group0 is match.group(0), tag_name group 1, attrs
\* group 2 or ""
process_tag(group0, tag_name, attrs) ==
    LET local_name == rsplit_last(tag_name)
    IN  IF HEADING_RE_match(local_name) THEN group0
        ELSE IF FF \notin Range(attrs) THEN group0
        ELSE <<"<">> \o tag_name \o CollapseSpaces(StyleAttrSub(attrs))
                     \o <<">">>

\* The match of  <([a-zA-Z][\w:-]*)(\s[^>]*)?\s*/?>  that starts at the
\* first lexeme of s: [len, end of group 1, end of group 2]; len = 0 when
\* the pattern does not match there.  Group 2, when it takes part, runs
\* from the white space after the name up to the first ">".
TagMatch(s) ==
    LET n  == RunFrom(s, 3, NameChars)
        p  == 3 + n                          \* first lexeme after the name
        gt == FirstFrom(s, p, {">"})
        no == [len |-> 0, g1 |-> 0, g2 |-> 0]
    IN  IF ~(Len(s) >= 3 /\ s[1] = "<" /\ s[2] \in Letters /\ p <= Len(s))
        THEN no
        ELSE IF s[p] \in Space
             THEN IF gt > 0 THEN [len |-> gt, g1 |-> p - 1, g2 |-> gt - 1]
                  ELSE no
        ELSE IF s[p] = ">" THEN [len |-> p, g1 |-> p - 1, g2 |-> p - 1]
        ELSE IF s[p] = "/" /\ p < Len(s) /\ s[p + 1] = ">"
             THEN [len |-> p + 1, g1 |-> p - 1, g2 |-> p - 1]
        ELSE no

\* re.sub(r"<([a-zA-Z][\w:-]*)(\s[^>]*)?\s*/?>", _process_tag, xhtml)
RECURSIVE strip_body_inline_fonts(_)
strip_body_inline_fonts(xhtml) ==
    IF xhtml = <<>> THEN <<>>
    ELSE LET m == TagMatch(xhtml)
         IN  IF m.len > 0
             THEN process_tag(SubSeq(xhtml, 1, m.len),
                              SubSeq(xhtml, 2, m.g1),
                              SubSeq(xhtml, m.g1 + 1, m.g2))
                      \o strip_body_inline_fonts(Drop(xhtml, m.len))
             ELSE <<Head(xhtml)>> \o strip_body_inline_fonts(Tail(xhtml))

(***************************************************************************)
(* Package Descriptor Rewriter: modify_opf.                                *)
(*                                                                         *)
(* An XML text is modelled by the tree it denotes: [rootns, children,      *)
(* rootfiles], the root's namespace, the root's children in document order *)
(* and the full-path values of the container:rootfile elements below it.   *)
(* A child is [ns, tag, ppd, kids] (ppd its page-progression-direction,    *)
(* "" when absent), a kid of it [ns, tag, name, content, text] (attributes *)
(* "" when absent).  Namespaces are named by the prefixes of               *)
(* OPF_NAMESPACES; "" is no namespace.                                     *)
(***************************************************************************)
OPF == "opf"

DC == "dc"

PWM == "primary-writing-mode"

\* Element.find(path): index of the first child with that namespace and tag,
\* 0 for None
find(elems, ns, tag) ==
    LET hits == {j \in 1..Len(elems) : elems[j].ns = ns /\ elems[j].tag = tag}
    IN  IF hits = {} THEN 0 ELSE Min(hits)

\* root.find("opf:metadata", ...) or else root.find("metadata")
find_metadata(root) ==
    LET a == find(root.children, OPF, "metadata")
    IN  IF a > 0 THEN a ELSE find(root.children, "", "metadata")

\* lines 137-142: find or create dc:language, set its text
set_language(kids) ==
    LET i == find(kids, DC, "language")
    IN  IF i = 0
        THEN Append(kids, [ns |-> DC, tag |-> "language", name |-> "",
                           content |-> "", text |-> "zh-tw"])
        ELSE [kids EXCEPT ![i].text = "zh-tw"]

\* the first <meta name="primary-writing-mode"> of a findall in namespace ns
find_writing_mode(kids, ns) ==
    LET hits == {j \in 1..Len(kids) :
                    /\ kids[j].ns = ns /\ kids[j].tag = "meta"
                    /\ kids[j].name = PWM}
    IN  IF hits = {} THEN 0 ELSE Min(hits)

\* lines 144-160: set the writing-mode meta, namespaced first, then bare,
\* else append a bare one
set_writing_mode(kids) ==
    LET a == find_writing_mode(kids, OPF)
        b == find_writing_mode(kids, "")
    IN  IF a > 0 THEN [kids EXCEPT ![a].content = "vertical-rl"]
        ELSE IF b > 0 THEN [kids EXCEPT ![b].content = "vertical-rl"]
        ELSE Append(kids, [ns |-> "", tag |-> "meta", name |-> PWM,
                           content |-> "vertical-rl", text |-> ""])

\* lines 162-167: root.find("opf:spine") or else root.find("spine")
set_spine(children) ==
    LET a == find(children, OPF, "spine")
        i == IF a > 0 THEN a ELSE find(children, "", "spine")
    IN  IF i = 0 THEN children
        ELSE [children EXCEPT ![i].ppd = "rtl"]

\* whether any element of the tree is in the opf namespace
UsesOpf(root) ==
    \/ root.rootns = OPF
    \/ \E i \in 1..Len(root.children) :
          \/ root.children[i].ns = OPF
          \/ \E j \in 1..Len(root.children[i].kids) :
                root.children[i].kids[j].ns = OPF

\* ET.tostring(root) after ET.register_namespace("", opf): the tree the
\* serialized text denotes.  The opf namespace is written as the default
\* namespace on the root when any element uses it, and un-namespaced
\* elements are written without a prefix: read back they are in opf.
tostring(root) ==
    LET ns(n) == IF n = "" THEN OPF ELSE n
    IN  IF ~UsesOpf(root) THEN root
        ELSE [rootns    |-> ns(root.rootns),
              rootfiles |-> root.rootfiles,
              children  |->
                [i \in 1..Len(root.children) |->
                   [root.children[i] EXCEPT
                      !.ns   = ns(@),
                      !.kids = [j \in 1..Len(@) |-> [@[j] EXCEPT !.ns = ns(@)]]]]]

\* line 135: raise ValueError("No <metadata> element found in OPF file")
has_metadata(root) == find_metadata(root) > 0

\* modify_opf(content) for a content with a metadata element
modify_opf(root) ==
    LET m  == find_metadata(root)
        c1 == [root.children EXCEPT
                 ![m].kids = set_writing_mode(set_language(@))]
    IN  tostring([root EXCEPT !.children = set_spine(c1)])

(***************************************************************************)
(* Archive Pipeline: find_opf_path and process_epub.                       *)
(*                                                                         *)
(* An archive entry is [info, data]: info = [filename, compress_type] is   *)
(* its ZipInfo, data = [utf8, text, xml] its bytes: whether they decode as *)
(* UTF-8, the lexemes they decode to (what the stylesheet and markup       *)
(* rewriters read), and the tree they denote as XML, <<tree>>, or <<>>     *)
(* when they are no well-formed XML (what ElementTree reads).  The dict    *)
(* `entries` is the sequence of its items [key, info, data] in insertion   *)
(* order.                                                                  *)
(***************************************************************************)
MIMETYPE == <<"m", "i", "m", "e", "t", "y", "p", "e">>

CONTAINER_XML ==
    <<"M", "E", "T", "A", "-", "I", "N", "F", "/",
      "c", "o", "n", "t", "a", "i", "n", "e", "r", ".", "x", "m", "l">>

DotOpf == <<".", "o", "p", "f">>

DotCss == <<".", "c", "s", "s">>

MarkupSuffixes ==
    { <<".", "x", "h", "t", "m", "l">>, <<".", "h", "t", "m", "l">>,
      <<".", "h", "t", "m">> }

\* line 188: filename.lower().endswith(".css")
is_css(filename) == EndsWith(str_lower(filename), DotCss)

\* line 195: filename.lower().endswith((".xhtml", ".html", ".htm"))
is_markup(filename) ==
    \E suf \in MarkupSuffixes : EndsWith(str_lower(filename), suf)

\* index of the entry of zip_file named name, 0 if there is none
IndexOf(zip_file, name) ==
    LET hits == {j \in 1..Len(zip_file) : zip_file[j].info.filename = name}
    IN  IF hits = {} THEN 0 ELSE Min(hits)

\* line 100: ET.fromstring(container_xml) raises ParseError
container_malformed(zip_file) ==
    LET c == IndexOf(zip_file, CONTAINER_XML)
    IN  c > 0 /\ zip_file[c].data.xml = <<>>

\* find_opf_path without the test path.endswith(".opf") of line 106
find_opf_path_any_ref(zip_file) ==
    LET c         == IndexOf(zip_file, CONTAINER_XML)
        rootfiles == IF c > 0 THEN zip_file[c].data.xml[1].rootfiles ELSE <<>>
        refs      == {j \in 1..Len(rootfiles) : rootfiles[j] # <<>>}
        scan      == {j \in 1..Len(zip_file) :
                         EndsWith(zip_file[j].info.filename, DotOpf)}
    IN  IF refs # {} THEN <<rootfiles[Min(refs)][1]>>
        ELSE IF scan # {} THEN <<zip_file[Min(scan)].info.filename>>
        ELSE <<>>

\* find_opf_path with the scan by extension tried before the pointer
find_opf_path_scan_first(zip_file) ==
    LET c         == IndexOf(zip_file, CONTAINER_XML)
        rootfiles == IF c > 0 THEN zip_file[c].data.xml[1].rootfiles ELSE <<>>
        refs      == {j \in 1..Len(rootfiles) :
                         /\ rootfiles[j] # <<>>
                         /\ EndsWith(rootfiles[j][1], DotOpf)}
        scan      == {j \in 1..Len(zip_file) :
                         EndsWith(zip_file[j].info.filename, DotOpf)}
    IN  IF scan # {} THEN <<zip_file[Min(scan)].info.filename>>
        ELSE IF refs # {} THEN <<rootfiles[Min(refs)][1]>>
        ELSE <<>>

\* find_opf_path(zip_file) when it returns: <<>> for None, <<path>> for a
\* path.  A rootfile is its full-path attribute, <<>> when it has none.
find_opf_path(zip_file) ==
    LET c         == IndexOf(zip_file, CONTAINER_XML)
        rootfiles == IF c > 0 THEN zip_file[c].data.xml[1].rootfiles ELSE <<>>
        refs      == {j \in 1..Len(rootfiles) :
                         /\ rootfiles[j] # <<>>
                         /\ EndsWith(rootfiles[j][1], DotOpf)}
        scan      == {j \in 1..Len(zip_file) :
                         EndsWith(zip_file[j].info.filename, DotOpf)}
    IN  IF refs # {} THEN <<rootfiles[Min(refs)][1]>>
        ELSE IF scan # {} THEN <<zip_file[Min(scan)].info.filename>>
        ELSE <<>>

\* a dict_set that deletes the key and inserts it anew, at the end
dict_set_reinsert(d, filename, data) ==
    LET keep(item) == item.key # filename
        old == d[CHOOSE j \in 1..Len(d) : d[j].key = filename]
    IN  Append(SelectSeq(d, keep), [old EXCEPT !.data = data])

\* entries[filename] = (info, data) for a key the dict holds: the item
\* keeps its position
dict_set(d, filename, data) ==
    [j \in 1..Len(d) |->
        IF d[j].key = filename THEN [d[j] EXCEPT !.data = data] ELSE d[j]]

\* filename in entries
dict_has(d, filename) == \E j \in 1..Len(d) : d[j].key = filename

dict_get(d, filename) == d[CHOOSE j \in 1..Len(d) : d[j].key = filename]

\* entries.pop(filename)
dict_pop(d, filename) ==
    LET keep(item) == item.key # filename IN SelectSeq(d, keep)

\* zout.writestr("mimetype", data, compress_type=zipfile.ZIP_STORED)
writestr_mimetype(info, data) ==
    [filename |-> MIMETYPE, compress_type |-> "STORED", data |-> data]

\* zout.writestr(info, data)
writestr(info, data) ==
    [filename |-> info.filename, compress_type |-> info.compress_type,
     data |-> data]

\* line 201: opf_path and opf_path in entries
Located == opf_path # <<>> /\ dict_has(entries, opf_path[1])

\* the position in `entries` the loop of line 217 is at
Cursor ==
    LET w == outfile.written
    IN  IF w # <<>> /\ w[1].filename = MIMETYPE THEN Len(w) ELSE Len(w) + 1

\* which names a rewriter is routed (lines 188, 195)
Routes(rewriter, filename) ==
    IF rewriter = "css" THEN is_css(filename) ELSE is_markup(filename)

\* modify_css or strip_body_inline_fonts on the decoded text
Rewrite(rewriter, text) ==
    IF rewriter = "css" THEN modify_css(text)
    ELSE strip_body_inline_fonts(text)

\* The loops of lines 187-191 and 194-198 over keys = list(entries.keys()):
\* the dict they leave, the calls of the rewriter they made, and whether
\* data.decode("utf-8") raised and ended them.
RECURSIVE rewrite_loop(_, _, _)
rewrite_loop(d, keys, rewriter) ==
    IF keys = <<>> THEN [entries |-> d, calls |-> <<>>, raised |-> FALSE]
    ELSE LET filename == Head(keys)
             data     == dict_get(d, filename).data
         IN  IF ~Routes(rewriter, filename)
             THEN rewrite_loop(d, Tail(keys), rewriter)
             ELSE IF ~data.utf8
             THEN [entries |-> d, calls |-> <<>>, raised |-> TRUE]
             ELSE LET modified == [data EXCEPT !.text = Rewrite(rewriter, @)]
                      rest == rewrite_loop(dict_set(d, filename, modified),
                                           Tail(keys), rewriter)
                  IN  [rest EXCEPT !.calls = <<<<filename, rewriter>>>> \o @]

Keys(d) == [j \in 1..Len(d) |-> d[j].key]

(***************************************************************************)
(* Values of the variables a specification does not use.                   *)
(***************************************************************************)
NoFile == [state |-> "absent", written |-> <<>>]

NoTag == [name |-> <<>>, attrs |-> <<>>, tail |-> <<>>]

NoRoot == [rootns |-> "", children |-> <<>>, rootfiles |-> <<>>]

PipeIdle ==
    /\ error = "" /\ zin = <<>> /\ entries = <<>> /\ opf_path = <<>>
    /\ outfile = NoFile /\ warnings = 0 /\ routed = <<>>

CssIdle == css_in = <<>> /\ css_out = <<>>

TagIdle == tag_in = NoTag /\ tag_out = <<>>

OpfIdle == opf_in = NoRoot /\ opf_out = NoRoot /\ opf_out2 = NoRoot

(***************************************************************************)
(* Spec: process_epub.  pc is the stage the run is at (the states of the   *)
(* pipeline); error is "" while the run goes on and the exception's name   *)
(* once one has ended it, pc then staying at the stage that raised.        *)
(***************************************************************************)
\* lines 179-180: open the input, find_opf_path(zin)
LocateDescriptor ==
    /\ pc = "locate" /\ error = ""
    /\ IF container_malformed(zin)
       THEN error' = "ParseError" /\ UNCHANGED <<pc, opf_path>>
       ELSE /\ opf_path' = find_opf_path(zin)
            /\ pc' = "read"
            /\ UNCHANGED error
    /\ UNCHANGED <<zin, entries, outfile, warnings, routed>>
    /\ UNCHANGED <<cssVars, tagVars, opfVars>>

\* lines 182-184: every entry into the dict, in infolist() order
ReadAllEntries ==
    /\ pc = "read" /\ error = ""
    /\ entries' = [j \in 1..Len(zin) |->
                      [key |-> zin[j].info.filename, info |-> zin[j].info,
                       data |-> zin[j].data]]
    /\ pc' = "stylesheets"
    /\ UNCHANGED <<error, zin, opf_path, outfile, warnings, routed>>
    /\ UNCHANGED <<cssVars, tagVars, opfVars>>

\* lines 186-191
RewriteStylesheets ==
    /\ pc = "stylesheets" /\ error = ""
    /\ LET r == rewrite_loop(entries, Keys(entries), "css")
       IN  /\ entries' = r.entries
           /\ routed' = routed \o r.calls
           /\ IF r.raised
              THEN error' = "UnicodeDecodeError" /\ UNCHANGED pc
              ELSE pc' = "markup" /\ UNCHANGED error
    /\ UNCHANGED <<zin, opf_path, outfile, warnings>>
    /\ UNCHANGED <<cssVars, tagVars, opfVars>>

\* lines 193-198
RewriteMarkup ==
    /\ pc = "markup" /\ error = ""
    /\ LET r == rewrite_loop(entries, Keys(entries), "markup")
       IN  /\ entries' = r.entries
           /\ routed' = routed \o r.calls
           /\ IF r.raised
              THEN error' = "UnicodeDecodeError" /\ UNCHANGED pc
              ELSE pc' = "descriptor" /\ UNCHANGED error
    /\ UNCHANGED <<zin, opf_path, outfile, warnings>>
    /\ UNCHANGED <<cssVars, tagVars, opfVars>>

\* lines 202-204: the located entry through modify_opf
DescriptorFound ==
    LET data == dict_get(entries, opf_path[1]).data
    IN  /\ IF ~data.utf8
           THEN /\ error' = "UnicodeDecodeError"
                /\ UNCHANGED <<pc, entries, routed>>
           ELSE /\ routed' = Append(routed, <<opf_path[1], "opf">>)
                /\ IF data.xml = <<>>
                   THEN error' = "ParseError" /\ UNCHANGED <<pc, entries>>
                   ELSE IF ~has_metadata(data.xml[1])
                   THEN error' = "ValueError" /\ UNCHANGED <<pc, entries>>
                   ELSE /\ entries' =
                             dict_set(entries, opf_path[1],
                                 [data EXCEPT
                                    !.xml = <<modify_opf(data.xml[1])>>])
                        /\ pc' = "open_output"
                        /\ UNCHANGED error
        /\ UNCHANGED warnings

\* lines 205-206: print("Warning: No OPF file found in EPUB")
DescriptorMissing ==
    /\ warnings' = warnings + 1
    /\ pc' = "open_output"
    /\ UNCHANGED <<error, entries, routed>>

\* a missing descriptor taken for fatal
RewriteDescriptor_Fatal ==
    /\ pc = "descriptor" /\ error = ""
    /\ IF Located THEN DescriptorFound
       ELSE /\ error' = "ValueError"
            /\ UNCHANGED <<pc, entries, routed, warnings>>
    /\ UNCHANGED <<zin, opf_path, outfile>>
    /\ UNCHANGED <<cssVars, tagVars, opfVars>>

\* lines 200-206
RewriteDescriptor ==
    /\ pc = "descriptor" /\ error = ""
    /\ IF Located THEN DescriptorFound ELSE DescriptorMissing
    /\ UNCHANGED <<zin, opf_path, outfile>>
    /\ UNCHANGED <<cssVars, tagVars, opfVars>>

\* line 209: zipfile.ZipFile(output_path, "w") creates or truncates the file
OpenOutput ==
    /\ pc = "open_output" /\ error = ""
    /\ outfile' = [state |-> "partial", written |-> <<>>]
    /\ pc' = "write_mimetype"
    /\ UNCHANGED <<error, zin, entries, opf_path, warnings, routed>>
    /\ UNCHANGED <<cssVars, tagVars, opfVars>>

\* lines 211-215
WriteMimetype ==
    /\ pc = "write_mimetype" /\ error = ""
    /\ IF dict_has(entries, MIMETYPE)
       THEN LET item == dict_get(entries, MIMETYPE)
            IN  /\ entries' = dict_pop(entries, MIMETYPE)
                /\ outfile' = [outfile EXCEPT !.written =
                      Append(@, writestr_mimetype(item.info, item.data))]
       ELSE UNCHANGED <<entries, outfile>>
    /\ pc' = "write_entries"
    /\ UNCHANGED <<error, zin, opf_path, warnings, routed>>
    /\ UNCHANGED <<cssVars, tagVars, opfVars>>

\* lines 217-218: one iteration of the loop
WriteEntry ==
    /\ pc = "write_entries" /\ error = ""
    /\ Cursor <= Len(entries)
    /\ outfile' = [outfile EXCEPT !.written =
          Append(@, writestr(entries[Cursor].info, entries[Cursor].data))]
    /\ UNCHANGED <<pc, error, zin, entries, opf_path, warnings, routed>>
    /\ UNCHANGED <<cssVars, tagVars, opfVars>>

\* a writestr of lines 213 or 218 raises (the disk is full, an I/O error):
\* ZipFile.__exit__ closes the archive with the entries written so far and
\* the exception leaves process_epub; nothing removes the file
WriteFails ==
    /\ pc \in {"write_mimetype", "write_entries"} /\ error = ""
    /\ pc = "write_entries" => Cursor <= Len(entries)
    /\ pc = "write_mimetype" => dict_has(entries, MIMETYPE)
    /\ error' = "OSError"
    /\ UNCHANGED <<pc, zin, entries, opf_path, outfile, warnings, routed>>
    /\ UNCHANGED <<cssVars, tagVars, opfVars>>

\* the with block of line 209 ends, line 220 prints "Written to ..."
CloseOutput ==
    /\ pc = "write_entries" /\ error = ""
    /\ Cursor > Len(entries)
    /\ outfile' = [outfile EXCEPT !.state = "complete"]
    /\ pc' = "done"
    /\ UNCHANGED <<error, zin, entries, opf_path, warnings, routed>>
    /\ UNCHANGED <<cssVars, tagVars, opfVars>>

(***************************************************************************)
(* The input archives of Spec: at most MaxEntries entries with distinct    *)
(* names, drawn from EntryPool.                                            *)
(***************************************************************************)
Name_css   == <<"s", ".", "c", "s", "s">>
Name_CSS   == <<"T", ".", "C", "S", "S">>
Name_xhtml == <<"c", ".", "x", "h", "t", "m", "l">>
Name_HTM   == <<"d", ".", "H", "T", "M">>
Name_opf   == <<"o", ".", "o", "p", "f">>
Name_opf2  == <<"p", ".", "o", "p", "f">>
Name_png   == <<"i", ".", "p", "n", "g">>
Name_gone  == <<"x", ".", "o", "p", "f">>   \* names no entry of the pool

Text(t) == [utf8 |-> TRUE, text |-> t, xml |-> <<>>]

Binary == [utf8 |-> FALSE, text |-> <<>>, xml |-> <<>>]

Xml(root) == [utf8 |-> TRUE, text |-> <<>>, xml |-> <<root>>]

CssSample == <<"p", " ", "{", " ", FF, ":", " ", "a", ";", " ", "}", "\n">>

MarkupSample ==
    <<"<", "p", " ", STYLE, "\"", FF, ":", "a", ";", "\"", ">", "a",
      "<", "h", "1", " ", STYLE, "\"", FF, ":", "a", "\"", ">">>

Element(ns, tag) == [ns |-> ns, tag |-> tag, ppd |-> "", kids |-> <<>>]

GoodOpf ==
    [rootns |-> OPF, rootfiles |-> <<>>,
     children |-> <<Element(OPF, "metadata"), Element(OPF, "spine")>>]

BareOpf ==
    [rootns |-> "", rootfiles |-> <<>>,
     children |-> <<Element("", "metadata")>>]

NoMetadataOpf ==
    [rootns |-> OPF, rootfiles |-> <<>>,
     children |-> <<Element(OPF, "spine")>>]

Container(rootfiles) ==
    Xml([rootns |-> "container", rootfiles |-> rootfiles, children |-> <<>>])

\* the full-path values of the container's rootfile elements, in order
RootfileLists ==
    { <<>>, << <<Name_opf>> >>, << <<Name_gone>> >>,
      << <<>>, <<Name_opf2>> >>, << <<Name_css>>, <<Name_opf>> >> }

Both == {"STORED", "DEFLATED"}

Entries(filename, methods, datas) ==
    { [info |-> [filename |-> filename, compress_type |-> m], data |-> d] :
        m \in methods, d \in datas }

EntryPool ==
    Entries(MIMETYPE, Both, {Text(<<"application/epub+zip">>)})
    \cup Entries(CONTAINER_XML, {"DEFLATED"},
                 {Container(rf) : rf \in RootfileLists} \cup {Binary})
    \cup Entries(Name_css, Both, {Text(CssSample)})
    \cup Entries(Name_css, {"DEFLATED"}, {Binary})
    \cup Entries(Name_CSS, {"DEFLATED"}, {Text(<<FF, ":", "a">>)})
    \cup Entries(Name_xhtml, {"DEFLATED"}, {Text(MarkupSample), Binary})
    \cup Entries(Name_HTM, {"STORED"}, {Text(<<"a">>)})
    \cup Entries(Name_opf, {"DEFLATED"},
                 {Xml(GoodOpf), Xml(NoMetadataOpf), Text(<<"a">>)})
    \cup Entries(Name_opf2, {"DEFLATED"}, {Xml(BareOpf)})
    \cup Entries(Name_png, {"STORED"}, {Binary})

Archives ==
    { z \in SeqsUpTo(EntryPool, MaxEntries) :
        \A i, j \in 1..Len(z) :
            z[i].info.filename = z[j].info.filename => i = j }

Init ==
    /\ pc = "locate"
    /\ zin \in Archives
    /\ error = "" /\ entries = <<>> /\ opf_path = <<>>
    /\ outfile = NoFile /\ warnings = 0 /\ routed = <<>>
    /\ CssIdle /\ TagIdle /\ OpfIdle

Next ==
    \/ LocateDescriptor
    \/ ReadAllEntries
    \/ RewriteStylesheets
    \/ RewriteMarkup
    \/ RewriteDescriptor
    \/ OpenOutput
    \/ WriteMimetype
    \/ WriteEntry
    \/ WriteFails
    \/ CloseOutput

Spec == Init /\ [][Next]_vars

(***************************************************************************)
(* SpecCss: modify_css on every stylesheet text of at most MaxCss lexemes. *)
(***************************************************************************)
CssLexemes == {FF, ":", ";", " ", "\n", "a"}

InitCss ==
    /\ pc = "css_call"
    /\ css_in \in SeqsUpTo(CssLexemes, MaxCss)
    /\ css_out = <<>>
    /\ PipeIdle /\ TagIdle /\ OpfIdle

CallModifyCss ==
    /\ pc = "css_call"
    /\ css_out' = modify_css(css_in)
    /\ pc' = "css_done"
    /\ UNCHANGED <<css_in, pipeVars, tagVars, opfVars>>

NextCss == CallModifyCss

SpecCss == InitCss /\ [][NextCss]_vars

(***************************************************************************)
(* SpecTag: strip_body_inline_fonts on a document that is one start-tag.   *)
(* The tag is drawn as a tag name, a list of attributes and a tail, and    *)
(* rendered to text; an attribute is [pre, name, q, value]: the white      *)
(* space before it, its name up to "=", its quote and its value.           *)
(***************************************************************************)
TagNames ==
    { <<"p">>, <<"h", "1">>, <<"H", "3">>, <<"s", "v", "g", ":", "h", "2">>,
      <<"h", "7">>, <<"h", "1", ":", "p">> }

StyleLexemes == {FF, ":", ";", " ", "a"}

StyleAttrs ==
    { [pre |-> <<" ">>, name |-> <<STYLE>>, q |-> q, value |-> v] :
        q \in Quotes, v \in SeqsUpTo(StyleLexemes, MaxVal) }

OtherValues ==
    { <<"a">>, <<"a", " ", " ", "b">>, <<FF>>, <<STYLE, "a">>,
      <<FF, ":", "a">> }

OtherAttrs ==
    { [pre |-> <<" ">>, name |-> n, q |-> "\"", value |-> v] :
        n \in { <<"title=">>, <<"data-", STYLE>> }, v \in OtherValues }

AttrLists ==
    {<<>>} \cup {<<o>> : o \in OtherAttrs} \cup {<<a>> : a \in StyleAttrs}
           \cup {<<o, a>> : o \in OtherAttrs, a \in StyleAttrs}
           \cup {<<a, o>> : a \in StyleAttrs, o \in OtherAttrs}

TagTails == { <<>>, <<" ", "/">> }

RenderAttr(a) == a.pre \o a.name \o <<a.q>> \o a.value \o <<a.q>>

RECURSIVE RenderAttrs(_)
RenderAttrs(as) ==
    IF as = <<>> THEN <<>> ELSE RenderAttr(Head(as)) \o RenderAttrs(Tail(as))

RenderTag(t) ==
    <<"<">> \o t.name \o RenderAttrs(t.attrs) \o t.tail \o <<">">>

InitTag ==
    /\ pc = "tag_call"
    /\ tag_in \in [name : TagNames, attrs : AttrLists, tail : TagTails]
    /\ tag_out = <<>>
    /\ PipeIdle /\ CssIdle /\ OpfIdle

CallStripInlineFonts ==
    /\ pc = "tag_call"
    /\ tag_out' = strip_body_inline_fonts(RenderTag(tag_in))
    /\ pc' = "tag_done"
    /\ UNCHANGED <<tag_in, pipeVars, cssVars, opfVars>>

NextTag == CallStripInlineFonts

SpecTag == InitTag /\ [][NextTag]_vars

(***************************************************************************)
(* SpecOpf: modify_opf on a descriptor, and again on its own output.       *)
(***************************************************************************)
KidPool ==
    { [ns |-> DC, tag |-> "language", name |-> "", content |-> "",
       text |-> "en"] }
    \cup { [ns |-> n, tag |-> "meta", name |-> k, content |-> "horizontal-lr",
            text |-> ""] : n \in {OPF, ""}, k \in {PWM, "cover"} }

ChildPool ==
    { [ns |-> n, tag |-> "metadata", ppd |-> "", kids |-> k] :
        n \in {OPF, ""}, k \in SeqsUpTo(KidPool, MaxKids) }
    \cup { [ns |-> n, tag |-> "spine", ppd |-> d, kids |-> <<>>] :
        n \in {OPF, ""}, d \in {"", "ltr"} }

Descriptors ==
    [rootns : {OPF, ""}, children : SeqsUpTo(ChildPool, MaxChildren),
     rootfiles : {<<>>}]

InitOpf ==
    /\ pc = "opf_call"
    /\ opf_in \in Descriptors
    /\ opf_out = NoRoot /\ opf_out2 = NoRoot
    /\ PipeIdle /\ CssIdle /\ TagIdle

\* modify_opf(content) returns
CallModifyOpf ==
    /\ pc = "opf_call"
    /\ has_metadata(opf_in)
    /\ opf_out' = modify_opf(opf_in)
    /\ pc' = "opf_once"
    /\ UNCHANGED <<opf_in, opf_out2, pipeVars, cssVars, tagVars>>

\* modify_opf(content) raises ValueError
RaiseNoMetadata ==
    /\ pc = "opf_call"
    /\ ~has_metadata(opf_in)
    /\ pc' = "opf_raised"
    /\ UNCHANGED <<opfVars, pipeVars, cssVars, tagVars>>

\* the output of modify_opf fed back to it
CallModifyOpfAgain ==
    /\ pc = "opf_once"
    /\ has_metadata(opf_out)
    /\ opf_out2' = modify_opf(opf_out)
    /\ pc' = "opf_twice"
    /\ UNCHANGED <<opf_in, opf_out, pipeVars, cssVars, tagVars>>

NextOpf == CallModifyOpf \/ RaiseNoMetadata \/ CallModifyOpfAgain

SpecOpf == InitOpf /\ [][NextOpf]_vars

(***************************************************************************)
(* Claims about the rewriters.                                             *)
(***************************************************************************)
\* the positions <<i, j>> of the kids of root that satisfy Test
KidsWhere(root, Test(_)) ==
    { ij \in (1..Len(root.children)) \X (1..(MaxKids + 4)) :
        /\ ij[2] <= Len(root.children[ij[1]].kids)
        /\ Test(root.children[ij[1]].kids[ij[2]]) }

IsLanguage(k) == k.ns = DC /\ k.tag = "language"

IsWritingMode(k) == k.tag = "meta" /\ k.name = PWM

\* C5: the document modify_opf produces has exactly one language field, of
\* value zh-tw, exactly one writing-mode meta entry, of content vertical-rl,
\* and every spine it has carries page-progression-direction rtl.
C5_DescriptorInvariants ==
    pc \in {"opf_once", "opf_twice"} =>
        /\ Cardinality(KidsWhere(opf_out, IsLanguage)) = 1
        /\ \A ij \in KidsWhere(opf_out, IsLanguage) :
              opf_out.children[ij[1]].kids[ij[2]].text = "zh-tw"
        /\ Cardinality(KidsWhere(opf_out, IsWritingMode)) = 1
        /\ \A ij \in KidsWhere(opf_out, IsWritingMode) :
              opf_out.children[ij[1]].kids[ij[2]].content = "vertical-rl"
        /\ \A i \in 1..Len(opf_out.children) :
              opf_out.children[i].tag = "spine" =>
                  opf_out.children[i].ppd = "rtl"

\* C6: modify_opf is idempotent: a second pass over its own output yields
\* the same document.
C6_Idempotent == pc = "opf_twice" => opf_out2 = opf_out

\* the literal text "font-family:" occurs in s
HasFontFamilyDecl(s) ==
    \E i \in 1..(Len(s) - 1) : s[i] = FF /\ s[i + 1] = ":"

\* C7: the output of modify_css begins with the font-face block, ends with
\* the writing-mode block and holds no "font-family:" between the two.
C7_NoUserFontFamily ==
    pc = "css_done" =>
        /\ StartsWith(css_out, FONT_FACE_CSS)
        /\ EndsWith(css_out, EXTRA_CSS)
        /\ Len(css_out) >= Len(FONT_FACE_CSS) + Len(EXTRA_CSS)
        /\ ~HasFontFamilyDecl(SubSeq(css_out, Len(FONT_FACE_CSS) + 1,
                                     Len(css_out) - Len(EXTRA_CSS)))

\* the lexemes an attribute name is made of
NameLexemes == {"title=", "data-", STYLE}

\* the attributes [name, value] a start-tag's attribute text holds; text
\* that is no attribute list ends the result with the name "?"
RECURSIVE ParseAttrs(_)
ParseAttrs(s) ==
    IF s = <<>> THEN <<>>
    ELSE IF Head(s) \in Space \cup {"/"} THEN ParseAttrs(Tail(s))
    ELSE LET n == RunFrom(s, 1, NameLexemes)
             c == IF n > 0 /\ n + 1 <= Len(s) /\ s[n + 1] \in Quotes
                  THEN FirstFrom(s, n + 2, {s[n + 1]}) ELSE 0
         IN  IF c > 0
             THEN <<[name |-> SubSeq(s, 1, n), value |-> SubSeq(s, n + 2, c - 1)]>>
                      \o ParseAttrs(Drop(s, c))
             ELSE <<[name |-> <<"?">>, value |-> s]>>

NotStyle(a) == a.name # <<STYLE>>

NameValue(as) == [i \in 1..Len(as) |-> [name |-> as[i].name, value |-> as[i].value]]

\* every font-family of a style value is a declaration's property name
DeclaresFontFamily(value) ==
    /\ FF \in Range(value)
    /\ \A i \in 1..Len(value) :
          value[i] = FF => (i < Len(value) /\ value[i + 1] = ":")

\* the tag drawn is no heading and has a style attribute declaring
\* font-family
StyledNonHeading ==
    /\ ~HEADING_RE_match(rsplit_last(tag_in.name))
    /\ \E i \in 1..Len(tag_in.attrs) :
          /\ tag_in.attrs[i].name = <<STYLE>>
          /\ DeclaresFontFamily(tag_in.attrs[i].value)

\* the attributes of the tag the rewriter returned
OutAttrs ==
    ParseAttrs(SubSeq(tag_out, 2 + Len(tag_in.name), Len(tag_out) - 1))

\* C8: for a non-heading start-tag with a style attribute declaring
\* font-family, the rewritten tag has every other attribute's name and value
\* as in the input, and no style value of it holds the text font-family.
C8_OtherAttrsUntouched ==
    (pc = "tag_done" /\ StyledNonHeading) =>
        /\ StartsWith(tag_out, <<"<">> \o tag_in.name)
        /\ tag_out[Len(tag_out)] = ">"
        /\ SelectSeq(OutAttrs, NotStyle)
              = SelectSeq(NameValue(tag_in.attrs), NotStyle)
        /\ \A i \in 1..Len(OutAttrs) :
              OutAttrs[i].name = <<STYLE>> => FF \notin Range(OutAttrs[i].value)

\* the local tag names h1..h6 in either letter case
HeadingNames == {"h", "H"} \X {"1", "2", "3", "4", "5", "6"}

\* C9: a start-tag whose local name is h1..h6 in any letter case is
\* byte-identical in the output, whatever its attributes.
C9_HeadingsUnchanged ==
    (pc = "tag_done" /\ rsplit_last(tag_in.name) \in HeadingNames) =>
        tag_out = RenderTag(tag_in)

\* a prefixed heading with an inline font-family was processed and kept
C9_Witness ==
    /\ pc = "tag_done"
    /\ tag_in.name = <<"s", "v", "g", ":", "h", "2">>
    /\ Len(tag_in.attrs) = 2
    /\ tag_in.attrs[2].name = <<STYLE>>
    /\ tag_in.attrs[2].value = <<FF, ":", "a">>
    /\ tag_out = RenderTag(tag_in)

(***************************************************************************)
(* Claims about process_epub.                                              *)
(***************************************************************************)
NameMethod(filename, compress_type) ==
    [filename |-> filename, compress_type |-> compress_type]

NotMimetype(e) == e.info.filename # MIMETYPE

\* C1: the output holds mimetype first and stored, when the input has one,
\* then every other input entry once, in the input's order, each with the
\* compression method it had in the input.
C1_OutputOrder ==
    pc = "done" =>
        LET rest == SelectSeq(zin, NotMimetype)
            w    == outfile.written
        IN  [j \in 1..Len(w) |-> NameMethod(w[j].filename, w[j].compress_type)]
              = (IF IndexOf(zin, MIMETYPE) > 0
                 THEN <<NameMethod(MIMETYPE, "STORED")>> ELSE <<>>)
                \o [j \in 1..Len(rest) |->
                       NameMethod(rest[j].info.filename,
                                  rest[j].info.compress_type)]

\* a run is done whose input had a deflated mimetype last, after a
\* stylesheet that was rewritten and another entry
C1_Witness ==
    /\ pc = "done"
    /\ Len(zin) = 3
    /\ zin[1].info.filename = Name_css
    /\ zin[3].info = NameMethod(MIMETYPE, "DEFLATED")
    /\ <<Name_css, "css">> \in Range(routed)
    /\ outfile.written[1].filename = MIMETYPE

\* C2: a run that fails leaves no partially-written archive at the output
\* path.
C2_NoPartialOutput == error # "" => outfile.state # "partial"

\* find_opf_path has returned and its result names no entry of the input
DescriptorNotLocated ==
    /\ pc \in {"descriptor", "open_output", "write_mimetype",
               "write_entries", "done"}
    /\ opf_path = <<>> \/ IndexOf(zin, opf_path[1]) = 0

\* what the stylesheet and markup rewriters make of an input entry's data
StyleAndMarkupOnly(e) ==
    IF is_css(e.info.filename)
    THEN [e.data EXCEPT !.text = modify_css(@)]
    ELSE IF is_markup(e.info.filename)
    THEN [e.data EXCEPT !.text = strip_body_inline_fonts(@)]
    ELSE e.data

\* C3: when no descriptor is located the descriptor stage does not end the
\* run; it prints exactly one warning, no entry goes through the Descriptor
\* Rewriter, and the archive written holds every entry with the stylesheet
\* and markup rewriters applied and nothing else changed.
C3_MissingDescriptor ==
    DescriptorNotLocated =>
        /\ ~(pc = "descriptor" /\ error # "")
        /\ pc # "descriptor" => warnings = 1
        /\ \A i \in 1..Len(routed) : routed[i][2] # "opf"
        /\ pc = "done" =>
              /\ outfile.state = "complete"
              /\ Len(outfile.written) = Len(zin)
              /\ \A j \in 1..Len(outfile.written) :
                    LET w == outfile.written[j]
                        i == IndexOf(zin, w.filename)
                    IN  i > 0 /\ w.data = StyleAndMarkupOnly(zin[i])

\* a run is done that found no descriptor, rewrote a stylesheet and passed
\* an .opf entry its pointer did not name
C3_Witness ==
    /\ pc = "done"
    /\ opf_path = <<Name_gone>>
    /\ IndexOf(zin, Name_opf) > 0
    /\ warnings = 1
    /\ <<Name_css, "css">> \in Range(routed)

\* the stages after a stage
After(stage) ==
    CASE stage = "stylesheets" ->
             {"markup", "descriptor", "open_output", "write_mimetype",
              "write_entries", "done"}
      [] stage = "markup" ->
             {"descriptor", "open_output", "write_mimetype", "write_entries",
              "done"}
      [] stage = "descriptor" ->
             {"open_output", "write_mimetype", "write_entries", "done"}

\* C4: every entry goes through at most one rewriter, the one its name
\* routes it to (.css, or .xhtml/.html/.htm, in any letter case, or the
\* located descriptor path), and an entry that went through none is written
\* with the content it had in the input.
C4_Routing ==
    /\ \A i, j \in 1..Len(routed) : routed[i][1] = routed[j][1] => i = j
    /\ \A i \in 1..Len(routed) :
          LET filename == routed[i][1]
              rewriter == routed[i][2]
          IN  /\ rewriter = "css" => is_css(filename)
              /\ rewriter = "markup" => is_markup(filename)
              /\ rewriter = "opf" => opf_path = <<filename>>
    /\ \A j \in 1..Len(zin) :
          LET filename == zin[j].info.filename
          IN  /\ (pc \in After("stylesheets") /\ is_css(filename))
                    => <<filename, "css">> \in Range(routed)
              /\ (pc \in After("markup") /\ is_markup(filename))
                    => <<filename, "markup">> \in Range(routed)
              /\ (pc \in After("descriptor") /\ opf_path = <<filename>>)
                    => <<filename, "opf">> \in Range(routed)
    /\ pc = "done" =>
          \A j \in 1..Len(outfile.written) :
              LET w == outfile.written[j]
              IN  (\A i \in 1..Len(routed) : routed[i][1] # w.filename)
                      => w.data = zin[IndexOf(zin, w.filename)].data

\* a run is done that sent one entry to the Stylesheet Rewriter, one to the
\* Descriptor Rewriter and wrote a third as it was
C4_Witness ==
    /\ pc = "done"
    /\ <<Name_CSS, "css">> \in Range(routed)
    /\ <<Name_opf, "opf">> \in Range(routed)
    /\ Len(routed) = 2
    /\ \E j \in 1..Len(outfile.written) :
          /\ outfile.written[j].filename = Name_png
          /\ outfile.written[j].data = Binary

\* the names of the input's entries that end in .opf, in listing order
OpfEntries ==
    LET is_opf(e) == EndsWith(e.info.filename, DotOpf)
    IN  SelectSeq(zin, is_opf)

\* the container pointer's references that end in .opf, in document order
OpfRefs ==
    LET c == IndexOf(zin, CONTAINER_XML)
        is_opf(ref) == ref # <<>> /\ EndsWith(ref[1], DotOpf)
    IN  IF c = 0 THEN <<>>
        ELSE SelectSeq(zin[c].data.xml[1].rootfiles, is_opf)

\* find_opf_path's two strategies, in order
TwoStrategies ==
    pc # "locate" =>
        opf_path = (IF OpfRefs # <<>> THEN OpfRefs[1]
                    ELSE IF OpfEntries # <<>>
                    THEN <<OpfEntries[1].info.filename>>
                    ELSE <<>>)

\* the calls of the Descriptor Rewriter the run made
OpfCalls ==
    LET is_opf_call(call) == call[2] = "opf" IN SelectSeq(routed, is_opf_call)

\* C10 as claimed: the two strategies in order, and whenever an entry's name
\* ends in .opf the path returned names an entry, and that entry is the one
\* process_epub sends through the Descriptor Rewriter.
C10_ReturnedPathIsAnEntry ==
    /\ TwoStrategies
    /\ (pc # "locate" /\ OpfEntries # <<>>) =>
          /\ opf_path # <<>>
          /\ IndexOf(zin, opf_path[1]) > 0
          /\ pc \in After("descriptor") => OpfCalls = << <<opf_path[1], "opf">> >>

\* C10 amended: the two strategies in order; the path returned names an
\* entry whenever it comes from the scan; and process_epub sends exactly the
\* entry it names through the Descriptor Rewriter, or none when it names no
\* entry.
C10_TwoStrategies ==
    /\ TwoStrategies
    /\ (pc # "locate" /\ OpfRefs = <<>> /\ OpfEntries # <<>>) =>
          opf_path # <<>> /\ IndexOf(zin, opf_path[1]) > 0
    /\ pc \in After("descriptor") =>
          OpfCalls = (IF opf_path # <<>> /\ IndexOf(zin, opf_path[1]) > 0
                      THEN << <<opf_path[1], "opf">> >> ELSE <<>>)

\* a run is done whose pointer's second reference named the descriptor,
\* not the first .opf entry of the listing
C10_Witness ==
    /\ pc = "done"
    /\ Len(zin) = 3
    /\ zin[1].info.filename = Name_opf
    /\ opf_path = <<Name_opf2>>
    /\ OpfCalls = << <<Name_opf2, "opf">> >>

=============================================================================
